---- MODULE Spec2Model ----
(***************************************************************************)
(* Model of totalsegmentator_konfai/main.py: the command-line driver that  *)
(* validates paths, resolves a task to a model bundle, fetches artifacts,  *)
(* stages a temporary workspace, runs `konfai PREDICTION` and converts the *)
(* prediction to the requested output file.                                *)
(*                                                                         *)
(* Text (paths, file names, command-line words) is a sequence of           *)
(* one-character strings, so that endswith, join and str are computed.     *)
(***************************************************************************)
EXTENDS Integers, Sequences, FiniteSets, TLC

\* ---------------------------------------------------------------- bounds
MaxCpu == 2
MaxExitCode == 3
MaxSignal == 2
NumJobs == 3
TmpNameCount == 2

\* ------------------------------------------------------- text primitives
Digits == <<"0", "1", "2", "3", "4", "5", "6", "7", "8", "9">>

RECURSIVE str(_)
str(n) ==
    IF n < 0 THEN <<"-">> \o str(-n)
    ELSE IF n < 10 THEN <<Digits[n + 1]>>
    ELSE str(n \div 10) \o <<Digits[(n % 10) + 1]>>

endswith(s, suffix) ==
    /\ Len(s) >= Len(suffix)
    /\ SubSeq(s, Len(s) - Len(suffix) + 1, Len(s)) = suffix

RECURSIVE join(_, _)
join(sep, parts) ==
    IF parts = <<>> THEN <<>>
    ELSE IF Len(parts) = 1 THEN parts[1]
    ELSE parts[1] \o sep \o join(sep, Tail(parts))

\* Path(p).absolute(): a relative path is prefixed with the working directory
Cwd == <<"/", "w">>
absolute(p) == IF p # <<>> /\ p[1] = "/" THEN p ELSE Cwd \o <<"/">> \o p

\* ------------------------------------------------------------ constants
SUPPORTED_EXTENSIONS == <<
    <<"m", "h", "a">>,
    <<"m", "h", "d">>,
    <<"n", "i", "i">>,
    <<"n", "i", "i", ".", "g", "z">>,
    <<"n", "r", "r", "d">>,
    <<"n", "r", "r", "d", ".", "g", "z">>,
    <<"g", "i", "p", "l">>,
    <<"g", "i", "p", "l", ".", "g", "z">> >>

\* a structured parse: only the text after the last dot is compared
HasSupportedExtension_LastSuffix(path) ==
    LET dots == {i \in 1..Len(path) : path[i] = "."}
        last == CHOOSE i \in dots : \A j \in dots : j <= i
    IN /\ dots # {}
       /\ \E i \in 1..Len(SUPPORTED_EXTENSIONS) :
              SubSeq(path, last + 1, Len(path)) = SUPPORTED_EXTENSIONS[i]

\* any(str(path).endswith(ext) for ext in SUPPORTED_EXTENSIONS)
HasSupportedExtension(path) ==
    \E i \in 1..Len(SUPPORTED_EXTENSIONS) : endswith(path, SUPPORTED_EXTENSIONS[i])

\* a task offered on the command line that get_models_name does not know
_get_available_models_WithBody == <<"total", "total_mr", "body">>

_get_available_models == <<"total", "total_mr">>

M291 == <<"M", "2", "9", "1", ".", "p", "t">>
M292 == <<"M", "2", "9", "2", ".", "p", "t">>
M293 == <<"M", "2", "9", "3", ".", "p", "t">>
M294 == <<"M", "2", "9", "4", ".", "p", "t">>
M295 == <<"M", "2", "9", "5", ".", "p", "t">>
M297 == <<"M", "2", "9", "7", ".", "p", "t">>
M850 == <<"M", "8", "5", "0", ".", "p", "t">>
M851 == <<"M", "8", "5", "1", ".", "p", "t">>
M852 == <<"M", "8", "5", "2", ".", "p", "t">>
Prediction_CT == <<"P", "r", "e", "d", "i", "c", "t", "i", "o", "n", "_", "C", "T", ".", "y", "m", "l">>
Prediction_CT_Fast ==
    <<"P", "r", "e", "d", "i", "c", "t", "i", "o", "n", "_", "C", "T", "_", "F", "a", "s", "t", ".", "y", "m", "l">>
Prediction_MR == <<"P", "r", "e", "d", "i", "c", "t", "i", "o", "n", "_", "M", "R", ".", "y", "m", "l">>
Prediction_MR_Fast ==
    <<"P", "r", "e", "d", "i", "c", "t", "i", "o", "n", "_", "M", "R", "_", "F", "a", "s", "t", ".", "y", "m", "l">>
ModelPy == <<"M", "o", "d", "e", "l", ".", "p", "y">>

\* the fast flag read the wrong way round
get_models_name_FastInverted(task, fast) ==
    LET m1 == IF task = "total"
              THEN (IF fast THEN <<M291, M292, M293, M294, M295>> ELSE <<M297>>)
              ELSE <<>>
        f1 == IF task = "total"
              THEN (IF fast THEN Prediction_CT ELSE Prediction_CT_Fast)
              ELSE <<>>
        m2 == IF task = "total_mr"
              THEN (IF fast THEN <<M850, M851>> ELSE <<M852>>)
              ELSE m1
        f2 == IF task = "total_mr"
              THEN (IF fast THEN Prediction_MR ELSE Prediction_MR_Fast)
              ELSE f1
    IN <<m2, f2>>

\* the MR branch picks the MR configuration whatever the fast flag
get_models_name_OneMRConfig(task, fast) ==
    LET m1 == IF task = "total"
              THEN (IF ~fast THEN <<M291, M292, M293, M294, M295>> ELSE <<M297>>)
              ELSE <<>>
        f1 == IF task = "total"
              THEN (IF ~fast THEN Prediction_CT ELSE Prediction_CT_Fast)
              ELSE <<>>
        m2 == IF task = "total_mr"
              THEN (IF ~fast THEN <<M850, M851>> ELSE <<M852>>)
              ELSE m1
        f2 == IF task = "total_mr" THEN Prediction_MR ELSE f1
    IN <<m2, f2>>

\* get_models_name(task, fast) -> <<models_name, inference_file>>
get_models_name(task, fast) ==
    LET m0 == <<>>
        f0 == <<>>
        m1 == IF task = "total"
              THEN (IF ~fast THEN <<M291, M292, M293, M294, M295>> ELSE <<M297>>)
              ELSE m0
        f1 == IF task = "total"
              THEN (IF ~fast THEN Prediction_CT ELSE Prediction_CT_Fast)
              ELSE f0
        m2 == IF task = "total_mr"
              THEN (IF ~fast THEN <<M850, M851>> ELSE <<M852>>)
              ELSE m1
        f2 == IF task = "total_mr"
              THEN (IF ~fast THEN Prediction_MR ELSE Prediction_MR_Fast)
              ELSE f1
    IN <<m2, f2>>

\* hf_hub_download(repo_id, filename, ...) returns the file's path in the local cache
HubCache == <<"/", "h", "/">>
hf_hub_download(filename) == HubCache \o filename

RECURSIVE download_loop_Prepend(_, _)
download_loop_Prepend(models_name, models_path) ==
    IF models_name = <<>> THEN models_path
    ELSE download_loop_Prepend(Tail(models_name),
                               <<hf_hub_download(models_name[1])>> \o models_path)

\* the loop of download_models: one fetch per model name, appended in turn
RECURSIVE download_loop(_, _)
download_loop(models_name, models_path) ==
    IF models_name = <<>> THEN models_path
    ELSE download_loop(Tail(models_name), Append(models_path, hf_hub_download(models_name[1])))

\* the files download_models asks for, in the order it asks for them
FetchOrder(models_name, inference_file) == models_name \o <<ModelPy, inference_file>>

\* command-line words
W_konfai == <<"k", "o", "n", "f", "a", "i">>
W_PREDICTION == <<"P", "R", "E", "D", "I", "C", "T", "I", "O", "N">>
W_y == <<"-", "y">>
W_MODEL == <<"-", "-", "M", "O", "D", "E", "L">>
W_config == <<"-", "-", "c", "o", "n", "f", "i", "g">>
W_gpu == <<"-", "-", "g", "p", "u">>
W_cpu == <<"-", "-", "c", "p", "u">>
W_quiet == <<"-", "q", "u", "i", "e", "t">>
Colon == <<":">>

DeviceArgs_AlwaysCpu(gpu, cpu) ==
    (IF gpu # <<>> THEN <<W_gpu, gpu>> ELSE <<>>) \o <<W_cpu, str(cpu)>>

\* if args.gpu: cmd += ["--gpu", args.gpu] else: cmd += ["--cpu", str(args.cpu)]
DeviceArgs(gpu, cpu) ==
    IF gpu # <<>> THEN <<W_gpu, gpu>> ELSE <<W_cpu, str(cpu)>>

\* if args.quiet: cmd += ["-quiet"]
QuietArgs(quiet) == IF quiet THEN <<W_quiet>> ELSE <<>>

BuildCmd(paths, config, gpu, cpu, quiet) ==
    <<W_konfai, W_PREDICTION, W_y, W_MODEL, join(Colon, paths), W_config, config>>
        \o DeviceArgs(gpu, cpu) \o QuietArgs(quiet)

\* sys.exit(n): the process status is the low byte of n
SysExit(n) == n % 256

EngineFailureCode_One(returncode) == 1

\* sys.exit(e.returncode) in the CalledProcessError handler
EngineFailureCode(returncode) == returncode

\* workspace layout
DatasetP == "Dataset/P001"
WsModelPy == "Model.py"
VolOut == "Dataset/P001/Volume.nii.gz"
Pred == "Predictions/TotalSegmentator/Dataset/P001/Seg.mha"

\* ------------------------------------------------- command-line inputs
InputNames == {
    <<"s", ".", "n", "i", "i", ".", "g", "z">>,
    <<"s", ".", "m", "h", "a">>,
    <<"s", ".", "t", "x", "t">> }
OutputNames == {
    <<"o", ".", "n", "i", "i", ".", "g", "z">>,
    <<"/", "d", "/", "o", ".", "n", "r", "r", "d">>,
    <<"d", "/", "o", ".", "t", "x", "t">> }
GpuLists == { <<>>, <<"0">>, <<"0", ",", "1">> }
DefaultOutput == <<"S", "e", "g", ".", "n", "i", "i", ".", "g", "z">>

\* argv as typed by the user; input = <<>> stands for a missing -i
ValidArgv ==
    [input : InputNames, output : OutputNames, task : {"total", "total_mr"},
     fast : BOOLEAN, quiet : BOOLEAN, gpu : GpuLists, cpu : 1..MaxCpu,
     version : {FALSE}]
OddArgv ==
    [input : {<<>>, <<"s", ".", "m", "h", "a">>}, output : {DefaultOutput},
     task : {"total", "body"}, fast : {FALSE}, quiet : {FALSE}, gpu : {<<>>},
     cpu : {1}, version : BOOLEAN]
Argvs == ValidArgv \cup OddArgv

StepOrder == <<"ValidateInput", "ValidateOutputDir", "ValidateOutputExt", "Preflight",
               "ResolveTask", "FetchArtifacts", "BuildWorkspace", "ConvertIn", "Invoke",
               "LocateOutput", "ConvertOut", "Cleanup", "Report">>

\* ------------------------------------------------------------------ state
VARIABLES
    argv,          \* the command line
    inputExists,   \* args.input.exists()
    konfaiOnPath,  \* which("konfai") is not None
    outParent,     \* "absent" | "present": the directory of the output path
    outputFile,    \* "absent" | "old" | "seg" | "partial": file at the output path
    outputFile0,   \* the file at the output path when the process started
    cache,         \* files present in the hub cache
    workspace,     \* "none" | "live" | "removed"
    wsFiles,       \* entries inside the workspace
    pc,            \* position in main()
    inWith,        \* inside the `with tempfile.TemporaryDirectory()` block
    pending,       \* <<>> or <<n>>: SystemExit(n) / exception travelling out of the with block
    exit,          \* <<>> while running, <<status>> once the process has ended
    failedStep,    \* "none" or the step that failed
    stderr,        \* messages printed to stderr
    stdout,        \* messages printed to stdout
    trace,         \* driver steps executed so far
    effects,       \* side effects performed so far, in order
    models_name, inference_file,
    models_path, inference_file_path, model_path,
    cmd,           \* argv handed to subprocess.run
    engineRuns,    \* one record per launched engine process
    engine,        \* outcome of subprocess.run
    \* several invocations of the tool sharing the system temporary directory
    dirs,          \* name -> directory instance living under that name (0: none)
    nextInst,      \* the next fresh directory instance
    jpc,           \* invocation -> position in main()
    jdir,          \* invocation -> tmpdir_str it was given (0: none yet)
    created,       \* <<instance, invocation>>: who made which directory
    touched        \* [job, inst, op]: every access to a workspace directory

envVars == <<argv, inputExists, konfaiOnPath, outputFile0>>
fsVars == <<outParent, outputFile, cache, workspace, wsFiles>>
ctlVars == <<pc, inWith, pending, exit, failedStep, stderr, stdout, trace>>
dataVars == <<models_name, inference_file, models_path, inference_file_path, model_path>>
runVars == <<cmd, engineRuns, engine>>
mainVars == <<envVars, fsVars, ctlVars, dataVars, runVars, effects>>
concVars == <<dirs, nextInst, jpc, jdir, created, touched>>
vars == <<mainVars, concVars>>

Jobs == 1..NumJobs
TmpNames == 1..TmpNameCount

\* no invocation has started and the temporary directory holds no workspace
ConcInit ==
    /\ dirs = [n \in TmpNames |-> 0]
    /\ nextInst = 1
    /\ jpc = [j \in Jobs |-> "start"]
    /\ jdir = [j \in Jobs |-> 0]
    /\ created = {}
    /\ touched = {}

\* args after parse_args(): both paths made absolute
args == [input |-> absolute(argv.input), output |-> absolute(argv.output),
         task |-> argv.task, fast |-> argv.fast, quiet |-> argv.quiet,
         gpu |-> argv.gpu, cpu |-> argv.cpu]

Init ==
    /\ argv \in Argvs
    /\ inputExists \in BOOLEAN
    /\ konfaiOnPath \in BOOLEAN
    /\ outParent \in {"absent", "present"}
    /\ outputFile \in {"absent", "old"}
    /\ outParent = "absent" => outputFile = "absent"
    /\ outputFile0 = outputFile
    /\ cache = {}
    /\ workspace = "none"
    /\ wsFiles = {}
    /\ pc = "ParseArgs"
    /\ inWith = FALSE
    /\ pending = <<>>
    /\ exit = <<>>
    /\ failedStep = "none"
    /\ stderr = <<>>
    /\ stdout = <<>>
    /\ trace = <<>>
    /\ effects = <<>>
    /\ models_name = <<>>
    /\ inference_file = <<>>
    /\ models_path = <<>>
    /\ inference_file_path = <<>>
    /\ model_path = <<>>
    /\ cmd = <<>>
    /\ engineRuns = <<>>
    /\ engine = [kind |-> "none"]
    /\ ConcInit

\* -------------------------------------------------------- control helpers
\* A step prints msg and calls sys.exit(code). Outside the with block the
\* process ends at once; inside it SystemExit first unwinds through the
\* TemporaryDirectory context manager.
Fail_NoUnwind(step, msg, code) ==
    /\ failedStep' = step
    /\ stderr' = Append(stderr, msg)
    /\ trace' = Append(trace, step)
    /\ stdout' = stdout
    /\ inWith' = inWith
    /\ pending' = pending
    /\ pc' = "terminated"
    /\ exit' = <<SysExit(code)>>

Fail(step, msg, code) ==
    /\ failedStep' = step
    /\ stderr' = Append(stderr, msg)
    /\ trace' = Append(trace, step)
    /\ stdout' = stdout
    /\ inWith' = inWith
    /\ IF inWith
       THEN /\ pending' = <<code>>
            /\ pc' = "Cleanup"
            /\ exit' = exit
       ELSE /\ pending' = pending
            /\ pc' = "terminated"
            /\ exit' = <<SysExit(code)>>

\* A step completes and control falls through to the next statement.
Pass(step, next) ==
    /\ pc' = next
    /\ trace' = Append(trace, step)
    /\ UNCHANGED <<inWith, pending, exit, failedStep, stderr, stdout>>

\* ---------------------------------------------------------------- actions
\* args = parser.parse_args(): argparse ends the process with status 2 on a
\* usage error and with status 0 after --version
ParseArgs ==
    /\ pc = "ParseArgs"
    /\ IF argv.version
       THEN /\ pc' = "terminated"
            /\ exit' = <<SysExit(0)>>
            /\ stdout' = Append(stdout, <<"version">>)
            /\ UNCHANGED <<failedStep, stderr>>
       ELSE IF argv.input = <<>> \/ ~(\E i \in 1..Len(_get_available_models) :
                                         _get_available_models[i] = argv.task)
       THEN /\ pc' = "terminated"
            /\ exit' = <<SysExit(2)>>
            /\ failedStep' = "ParseArgs"
            /\ stderr' = Append(stderr, <<"usage">>)
            /\ UNCHANGED stdout
       ELSE /\ pc' = "ValidateInput"
            /\ UNCHANGED <<exit, failedStep, stderr, stdout>>
    /\ UNCHANGED <<inWith, pending, trace>>
    /\ UNCHANGED <<concVars, envVars, fsVars, dataVars, runVars, effects>>

ValidateInput ==
    /\ pc = "ValidateInput"
    /\ IF ~inputExists
       THEN Fail("ValidateInput", <<"input_missing">>, 1)
       ELSE IF ~HasSupportedExtension(args.input)
       THEN Fail("ValidateInput", <<"input_extension">>, 1)
       ELSE Pass("ValidateInput", "ValidateOutputDir")
    /\ UNCHANGED <<concVars, envVars, fsVars, dataVars, runVars, effects>>

\* out_parent.mkdir(parents=True, exist_ok=True)
ValidateOutputDir ==
    /\ pc = "ValidateOutputDir"
    /\ \E ok \in BOOLEAN :
        IF outParent = "present" \/ ok
        THEN /\ Pass("ValidateOutputDir", "ValidateOutputExt")
             /\ outParent' = "present"
             /\ effects' = IF outParent = "absent"
                           THEN Append(effects, "mkdir_output_parent")
                           ELSE effects
        ELSE /\ Fail("ValidateOutputDir", <<"output_dir">>, 1)
             /\ UNCHANGED <<outParent, effects>>
    /\ UNCHANGED <<outputFile, cache, workspace, wsFiles>>
    /\ UNCHANGED <<concVars, envVars, dataVars, runVars>>

ValidateOutputExt ==
    /\ pc = "ValidateOutputExt"
    /\ IF ~HasSupportedExtension(args.output)
       THEN Fail("ValidateOutputExt", <<"output_extension">>, 1)
       ELSE Pass("ValidateOutputExt", "Preflight")
    /\ UNCHANGED <<concVars, envVars, fsVars, dataVars, runVars, effects>>

ensure_konfai_available_NoExit ==
    /\ pc = "Preflight"
    /\ IF ~konfaiOnPath
       THEN /\ failedStep' = "Preflight"
            /\ stderr' = Append(stderr, <<"konfai_not_in_path">>)
            /\ trace' = Append(trace, "Preflight")
            /\ pc' = "ResolveTask"
            /\ UNCHANGED <<inWith, pending, exit, stdout>>
       ELSE Pass("Preflight", "ResolveTask")
    /\ UNCHANGED <<concVars, envVars, fsVars, dataVars, runVars, effects>>

\* ensure_konfai_available()
ensure_konfai_available ==
    /\ pc = "Preflight"
    /\ IF ~konfaiOnPath
       THEN Fail("Preflight", <<"konfai_not_in_path">>, 1)
       ELSE Pass("Preflight", "ResolveTask")
    /\ UNCHANGED <<concVars, envVars, fsVars, dataVars, runVars, effects>>

ResolveTask ==
    /\ pc = "ResolveTask"
    /\ models_name' = get_models_name(args.task, args.fast)[1]
    /\ inference_file' = get_models_name(args.task, args.fast)[2]
    /\ Pass("ResolveTask", "FetchArtifacts")
    /\ UNCHANGED <<models_path, inference_file_path, model_path>>
    /\ UNCHANGED <<concVars, envVars, fsVars, runVars, effects>>

\* download_models: the first k fetches succeed; k below the number of files
\* means fetch k+1 raised and the except branch exits with status 1
download_models ==
    /\ pc = "FetchArtifacts"
    /\ LET order == FetchOrder(models_name, inference_file)
       IN \E k \in 0..Len(order) :
            /\ cache' = cache \cup {order[i] : i \in 1..k}
            /\ effects' = effects \o [i \in 1..k |-> "download"]
            /\ IF k = Len(order)
               THEN /\ models_path' = download_loop(models_name, <<>>)
                    /\ model_path' = hf_hub_download(ModelPy)
                    /\ inference_file_path' = hf_hub_download(inference_file)
                    /\ Pass("FetchArtifacts", "BuildWorkspace")
               ELSE /\ Fail("FetchArtifacts", <<"download">>, 1)
                    /\ UNCHANGED <<models_path, model_path, inference_file_path>>
    /\ UNCHANGED <<models_name, inference_file>>
    /\ UNCHANGED <<outParent, outputFile, workspace, wsFiles>>
    /\ UNCHANGED <<concVars, envVars, runVars>>

\* with tempfile.TemporaryDirectory(): dataset_p.mkdir; shutil.copy2(Model.py)
\*   "mkdtemp": the directory cannot be created, the exception ends the process
\*   "mkdir":   dataset_p.mkdir raises inside the block (not caught)
\*   "copy":    copy2 raises, the handler exits with status 1
BuildWorkspaceThen(next) ==
    /\ pc = "BuildWorkspace"
    /\ \E outcome \in {"mkdtemp", "mkdir", "copy", "ok"} :
        IF outcome = "mkdtemp"
        THEN /\ Fail("BuildWorkspace", <<"traceback">>, 1)
             /\ UNCHANGED <<workspace, wsFiles, effects>>
        ELSE /\ workspace' = "live"
             /\ trace' = Append(trace, "BuildWorkspace")
             /\ inWith' = TRUE
             /\ UNCHANGED <<exit, stdout>>
             /\ IF outcome = "ok"
                THEN /\ wsFiles' = {DatasetP, WsModelPy}
                     /\ effects' = effects \o <<"mkdtemp", "mkdir_dataset", "copy_model">>
                     /\ pc' = next
                     /\ UNCHANGED <<pending, failedStep, stderr>>
                ELSE /\ wsFiles' = IF outcome = "copy" THEN {DatasetP} ELSE {}
                     /\ effects' = effects \o
                            (IF outcome = "copy" THEN <<"mkdtemp", "mkdir_dataset">>
                             ELSE <<"mkdtemp">>)
                     /\ pc' = "Cleanup"
                     /\ pending' = <<1>>
                     /\ failedStep' = "BuildWorkspace"
                     /\ stderr' = Append(stderr, IF outcome = "copy"
                                                 THEN <<"copy_model">> ELSE <<"traceback">>)
    /\ UNCHANGED <<outParent, outputFile, cache>>
    /\ UNCHANGED <<concVars, envVars, dataVars, runVars>>

BuildWorkspace_ThenInvoke == BuildWorkspaceThen("Invoke")

BuildWorkspace == BuildWorkspaceThen("ConvertIn")

\* sitk.ReadImage(args.input); sitk.WriteImage(img, dest): dest is "vol_out"
\* (inside the workspace) in main()
ConvertInTo(dest) ==
    /\ pc = "ConvertIn"
    /\ \E outcome \in {"read_error", "write_error", "ok"} :
        /\ IF outcome = "ok"
           THEN Pass("ConvertIn", "Invoke")
           ELSE Fail("ConvertIn", <<"convert_in">>, 1)
        /\ IF outcome = "read_error"
           THEN UNCHANGED <<wsFiles, effects, outputFile>>
           ELSE IF dest = "vol_out"
           THEN /\ wsFiles' = wsFiles \cup {VolOut}
                /\ effects' = Append(effects, "write_volume")
                /\ UNCHANGED outputFile
           ELSE /\ outputFile' = IF outcome = "ok" THEN "seg" ELSE "partial"
                /\ effects' = Append(effects, "write_output")
                /\ UNCHANGED wsFiles
    /\ UNCHANGED <<outParent, cache, workspace>>
    /\ UNCHANGED <<concVars, envVars, dataVars, runVars>>

ConvertIn_ToOutputPath == ConvertInTo("output")

ConvertIn == ConvertInTo("vol_out")

\* what subprocess.run(cmd, cwd=tmpdir, check=True) can do
ReturnCodes == ((0 - MaxSignal)..MaxExitCode) \cup {255}
EngineOutcomes ==
    {[kind |-> "notfound"], [kind |-> "oserror"]}
    \cup [kind : {"exit"}, rc : ReturnCodes, wrotePred : BOOLEAN]

\* one handler for both exceptions: a missing executable is reported as an
\* engine failure
Invoke_OneHandler ==
    /\ pc = "Invoke"
    /\ cmd' = BuildCmd(models_path, inference_file_path, args.gpu, args.cpu, args.quiet)
    /\ \E o \in EngineOutcomes :
        /\ engine' = o
        /\ IF o.kind = "notfound"
           THEN /\ Fail("Invoke", <<"engine_exit", 1>>, 1)
                /\ UNCHANGED <<engineRuns, wsFiles, effects>>
           ELSE IF o.kind = "oserror"
           THEN /\ Fail("Invoke", <<"traceback">>, 1)
                /\ UNCHANGED <<engineRuns, wsFiles, effects>>
           ELSE /\ engineRuns' = Append(engineRuns,
                        [cmd |-> cmd', cwd |-> wsFiles, cache |-> cache, rc |-> o.rc])
                /\ effects' = Append(effects, "subprocess")
                /\ wsFiles' = IF o.wrotePred THEN wsFiles \cup {Pred} ELSE wsFiles
                /\ IF o.rc # 0
                   THEN Fail("Invoke", <<"engine_exit", o.rc>>, EngineFailureCode(o.rc))
                   ELSE Pass("Invoke", "LocateOutput")
    /\ UNCHANGED <<outParent, outputFile, cache, workspace>>
    /\ UNCHANGED <<concVars, envVars, dataVars>>

\* build cmd, subprocess.run, and the two except branches
Invoke ==
    /\ pc = "Invoke"
    /\ cmd' = BuildCmd(models_path, inference_file_path, args.gpu, args.cpu, args.quiet)
    /\ \E o \in EngineOutcomes :
        /\ engine' = o
        /\ IF o.kind = "notfound"
           THEN /\ Fail("Invoke", <<"konfai_not_found">>, 1)
                /\ UNCHANGED <<engineRuns, wsFiles, effects>>
           ELSE IF o.kind = "oserror"
           THEN /\ Fail("Invoke", <<"traceback">>, 1)
                /\ UNCHANGED <<engineRuns, wsFiles, effects>>
           ELSE /\ engineRuns' = Append(engineRuns,
                        [cmd |-> cmd', cwd |-> wsFiles, cache |-> cache, rc |-> o.rc])
                /\ effects' = Append(effects, "subprocess")
                /\ wsFiles' = IF o.wrotePred THEN wsFiles \cup {Pred} ELSE wsFiles
                /\ IF o.rc # 0
                   THEN Fail("Invoke", <<"engine_exit", o.rc>>, EngineFailureCode(o.rc))
                   ELSE Pass("Invoke", "LocateOutput")
    /\ UNCHANGED <<outParent, outputFile, cache, workspace>>
    /\ UNCHANGED <<concVars, envVars, dataVars>>

LocateOutput_NoCheck ==
    /\ pc = "LocateOutput"
    /\ Pass("LocateOutput", "ConvertOut")
    /\ UNCHANGED <<concVars, envVars, fsVars, dataVars, runVars, effects>>

\* if not pred.exists(): ... sys.exit(1)
LocateOutput ==
    /\ pc = "LocateOutput"
    /\ IF Pred \notin wsFiles
       THEN Fail("LocateOutput", <<"prediction_missing">>, 1)
       ELSE Pass("LocateOutput", "ConvertOut")
    /\ UNCHANGED <<concVars, envVars, fsVars, dataVars, runVars, effects>>

\* the except branch prints the message but does not exit
ConvertOut_IgnoreError ==
    /\ pc = "ConvertOut"
    /\ \E outcome \in {"read_error", "write_error_clean", "write_error_partial", "ok"} :
        /\ pc' = "Cleanup"
        /\ trace' = Append(trace, "ConvertOut")
        /\ stderr' = IF outcome = "ok" THEN stderr ELSE Append(stderr, <<"convert_out">>)
        /\ UNCHANGED <<inWith, pending, exit, failedStep, stdout>>
        /\ IF outcome = "ok"
           THEN /\ outputFile' = "seg"
                /\ effects' = Append(effects, "write_output")
           ELSE IF outcome = "write_error_partial"
           THEN /\ outputFile' = "partial"
                /\ effects' = Append(effects, "write_output")
           ELSE UNCHANGED <<outputFile, effects>>
    /\ UNCHANGED <<outParent, cache, workspace, wsFiles>>
    /\ UNCHANGED <<concVars, envVars, dataVars, runVars>>

\* sitk.ReadImage(pred); sitk.WriteImage(seg, args.output)
ConvertOut ==
    /\ pc = "ConvertOut"
    /\ \E outcome \in {"read_error", "write_error_clean", "write_error_partial", "ok"} :
        /\ IF outcome = "ok"
           THEN /\ pc' = "Cleanup"
                /\ trace' = Append(trace, "ConvertOut")
                /\ UNCHANGED <<inWith, pending, exit, failedStep, stderr, stdout>>
           ELSE Fail("ConvertOut", <<"convert_out">>, 1)
        /\ IF outcome = "ok"
           THEN /\ outputFile' = "seg"
                /\ effects' = Append(effects, "write_output")
           ELSE IF outcome = "write_error_partial"
           THEN /\ outputFile' = "partial"
                /\ effects' = Append(effects, "write_output")
           ELSE UNCHANGED <<outputFile, effects>>
    /\ UNCHANGED <<outParent, cache, workspace, wsFiles>>
    /\ UNCHANGED <<concVars, envVars, dataVars, runVars>>

\* TemporaryDirectory.__exit__: the tree is removed, then a pending
\* SystemExit / exception ends the process, else control leaves the block
Cleanup ==
    /\ pc = "Cleanup"
    /\ workspace' = "removed"
    /\ wsFiles' = {}
    /\ effects' = Append(effects, "rmtree")
    /\ trace' = Append(trace, "Cleanup")
    /\ inWith' = FALSE
    /\ IF pending # <<>>
       THEN /\ pc' = "terminated"
            /\ exit' = <<SysExit(pending[1])>>
       ELSE /\ pc' = "Report"
            /\ UNCHANGED exit
    /\ UNCHANGED <<pending, failedStep, stderr, stdout>>
    /\ UNCHANGED <<outParent, outputFile, cache>>
    /\ UNCHANGED <<concVars, envVars, dataVars, runVars>>

\* if not args.quiet: print("Done ..."), then main returns
Report ==
    /\ pc = "Report"
    /\ stdout' = IF ~args.quiet THEN Append(stdout, <<"done">>) ELSE stdout
    /\ trace' = Append(trace, "Report")
    /\ pc' = "terminated"
    /\ exit' = <<0>>
    /\ UNCHANGED <<inWith, pending, failedStep, stderr>>
    /\ UNCHANGED <<concVars, envVars, fsVars, dataVars, runVars, effects>>

\* paths for the extension check: every supported suffix, and near misses
ExtNames == {
    <<"s", ".", "m", "h", "a">>,
    <<"s", ".", "m", "h", "d">>,
    <<"s", ".", "n", "i", "i">>,
    <<"s", ".", "n", "i", "i", ".", "g", "z">>,
    <<"s", ".", "n", "r", "r", "d">>,
    <<"s", ".", "n", "r", "r", "d", ".", "g", "z">>,
    <<"s", ".", "g", "i", "p", "l">>,
    <<"s", ".", "g", "i", "p", "l", ".", "g", "z">>,
    <<"s", ".", "t", "x", "t">>,
    <<"s", ".", "g", "z">>,
    <<"s", ".", "n", "i", "i", ".", "b", "a", "k">>,
    <<"s", ".", "m", "h", "a", ".", "g", "z">>,
    <<"s", ".", "M", "H", "A">>,
    <<"s", ".", "n", "i", "i", ".", "g">>,
    <<"s", "m", "h", "a">>,
    <<"m", "h">> }

\* runs that differ only in the two paths, in an environment where every
\* step can succeed
InitExt ==
    /\ argv \in [input : ExtNames, output : ExtNames, task : {"total_mr"},
                 fast : {TRUE}, quiet : {TRUE}, gpu : {<<>>}, cpu : {1},
                 version : {FALSE}]
    /\ inputExists = TRUE
    /\ konfaiOnPath = TRUE
    /\ outParent = "present"
    /\ outputFile = "absent"
    /\ outputFile0 = outputFile
    /\ cache = {}
    /\ workspace = "none"
    /\ wsFiles = {}
    /\ pc = "ParseArgs"
    /\ inWith = FALSE
    /\ pending = <<>>
    /\ exit = <<>>
    /\ failedStep = "none"
    /\ stderr = <<>>
    /\ stdout = <<>>
    /\ trace = <<>>
    /\ effects = <<>>
    /\ models_name = <<>>
    /\ inference_file = <<>>
    /\ models_path = <<>>
    /\ inference_file_path = <<>>
    /\ model_path = <<>>
    /\ cmd = <<>>
    /\ engineRuns = <<>>
    /\ engine = [kind |-> "none"]
    /\ ConcInit

\* ------------------------------------------ concurrent invocations
\* the single-invocation variables are not used when several invocations
\* are followed through their workspace accesses
MainParked ==
    /\ argv = [input |-> <<>>, output |-> DefaultOutput, task |-> "total",
               fast |-> FALSE, quiet |-> FALSE, gpu |-> <<>>, cpu |-> 1,
               version |-> FALSE]
    /\ inputExists = FALSE
    /\ konfaiOnPath = FALSE
    /\ outParent = "absent"
    /\ outputFile = "absent"
    /\ outputFile0 = "absent"
    /\ cache = {}
    /\ workspace = "none"
    /\ wsFiles = {}
    /\ pc = "parked"
    /\ inWith = FALSE
    /\ pending = <<>>
    /\ exit = <<>>
    /\ failedStep = "none"
    /\ stderr = <<>>
    /\ stdout = <<>>
    /\ trace = <<>>
    /\ effects = <<>>
    /\ models_name = <<>>
    /\ inference_file = <<>>
    /\ models_path = <<>>
    /\ inference_file_path = <<>>
    /\ model_path = <<>>
    /\ cmd = <<>>
    /\ engineRuns = <<>>
    /\ engine = [kind |-> "none"]

InitConc == MainParked /\ ConcInit

\* every invocation writes into one agreed directory name
mkdtemp_FixedName(existing) == {1}

\* tempfile.TemporaryDirectory(): the names mkdtemp can return, those under
\* which os.mkdir does not find a directory already
mkdtemp(existing) == TmpNames \ existing

\* an access through the path tmpdir_str reaches whatever directory lives
\* under that name at the time
Reached(j) == dirs[jdir[j]]
Access(j, op) ==
    touched' = IF Reached(j) = 0 THEN touched
               ELSE touched \cup {[job |-> j, inst |-> Reached(j), op |-> op]}

\* with tempfile.TemporaryDirectory() as tmpdir_str
JobCreate(j) ==
    /\ jpc[j] = "start"
    /\ LET names == mkdtemp({n \in TmpNames : dirs[n] # 0})
       IN IF names = {}
          THEN /\ jpc' = [jpc EXCEPT ![j] = "done"]
               /\ UNCHANGED <<dirs, nextInst, jdir, created, touched>>
          ELSE \E n \in names :
                LET inst == IF dirs[n] = 0 THEN nextInst ELSE dirs[n]
                IN /\ dirs' = [dirs EXCEPT ![n] = inst]
                   /\ nextInst' = IF dirs[n] = 0 THEN nextInst + 1 ELSE nextInst
                   /\ jdir' = [jdir EXCEPT ![j] = n]
                   /\ created' = created \cup {<<inst, j>>}
                   /\ touched' = touched \cup {[job |-> j, inst |-> inst, op |-> "create"]}
                   /\ jpc' = [jpc EXCEPT ![j] = "Stage"]
    /\ UNCHANGED mainVars

\* dataset_p.mkdir, copy2(model_path, tmpdir / "Model.py"), WriteImage(img, vol_out)
JobStage(j) ==
    /\ jpc[j] = "Stage"
    /\ Access(j, "write")
    /\ \E ok \in BOOLEAN :
        jpc' = [jpc EXCEPT ![j] = IF ok /\ Reached(j) # 0 THEN "Invoke" ELSE "Cleanup"]
    /\ UNCHANGED <<dirs, nextInst, jdir, created>>
    /\ UNCHANGED mainVars

\* subprocess.run(cmd, cwd=tmpdir, check=True)
JobInvoke(j) ==
    /\ jpc[j] = "Invoke"
    /\ Access(j, "engine")
    /\ \E ok \in BOOLEAN :
        jpc' = [jpc EXCEPT ![j] = IF ok /\ Reached(j) # 0 THEN "Harvest" ELSE "Cleanup"]
    /\ UNCHANGED <<dirs, nextInst, jdir, created>>
    /\ UNCHANGED mainVars

\* pred.exists(); sitk.ReadImage(str(pred))
JobHarvest(j) ==
    /\ jpc[j] = "Harvest"
    /\ Access(j, "read")
    /\ jpc' = [jpc EXCEPT ![j] = "Cleanup"]
    /\ UNCHANGED <<dirs, nextInst, jdir, created>>
    /\ UNCHANGED mainVars

\* leaving the with block removes the tree found under tmpdir_str
JobCleanup(j) ==
    /\ jpc[j] = "Cleanup"
    /\ Access(j, "remove")
    /\ dirs' = [dirs EXCEPT ![jdir[j]] = 0]
    /\ jpc' = [jpc EXCEPT ![j] = "done"]
    /\ UNCHANGED <<nextInst, jdir, created>>
    /\ UNCHANGED mainVars

NextConc ==
    \/ \E j \in Jobs : JobCreate(j)
    \/ \E j \in Jobs : JobStage(j)
    \/ \E j \in Jobs : JobInvoke(j)
    \/ \E j \in Jobs : JobHarvest(j)
    \/ \E j \in Jobs : JobCleanup(j)

Next ==
    \/ ParseArgs
    \/ ValidateInput
    \/ ValidateOutputDir
    \/ ValidateOutputExt
    \/ ensure_konfai_available
    \/ ResolveTask
    \/ download_models
    \/ BuildWorkspace
    \/ ConvertIn
    \/ Invoke
    \/ LocateOutput
    \/ ConvertOut
    \/ Cleanup
    \/ Report

Spec == Init /\ [][Next]_vars

SpecExt == InitExt /\ [][Next]_vars

SpecConc == InitConc /\ [][NextConc]_vars

\* ================================================================ claims
Terminated == pc = "terminated"

\* the engine process was launched and came back with a non-zero return code
EngineFailed == failedStep = "Invoke" /\ engine.kind = "exit"

\* the steps of the trace other than Cleanup
CoreTrace == LET NotCleanup(s) == s # "Cleanup" IN SelectSeq(trace, NotCleanup)

InTrace(step) == \E i \in 1..Len(trace) : trace[i] = step
Did(effect) == \E i \in 1..Len(effects) : effects[i] = effect

\* ---- C1
\* C1: once the workspace has been created, the workspace directory tree has
\* been removed by the time the process terminates, on every exit path.
C1_WorkspaceRemovedAtExit ==
    Terminated => /\ workspace # "live"
                  /\ Did("mkdtemp") => (workspace = "removed" /\ wsFiles = {})

\* a run that failed in the output conversion, after the workspace was created
C1_Witness ==
    /\ Terminated
    /\ failedStep = "ConvertOut"
    /\ Did("mkdtemp")
    /\ workspace = "removed"

\* ---- C2
\* C2: when the engine process runs and exits with a failing code c, the tool
\* terminates with exactly status c.
C2_EngineExitCodePropagated ==
    (Terminated /\ engine.kind = "exit" /\ engine.rc \in 1..255)
        => exit = <<engine.rc>>

\* the engine exited with code 3 and so did the tool
C2_Witness ==
    /\ Terminated
    /\ engine.kind = "exit"
    /\ engine.rc = 3
    /\ exit = <<3>>

\* ---- C3
\* C3: when a step before the final output conversion fails, the file at the
\* output path is what it was when the process started.
C3_OutputUntouchedOnEarlyFailure ==
    (failedStep \notin {"none", "ConvertOut"})
        => /\ outputFile = outputFile0
           /\ ~Did("write_output")

\* the engine failed while an older file sat at the output path
C3_Witness ==
    /\ Terminated
    /\ EngineFailed
    /\ outputFile0 = "old"
    /\ outputFile = "old"

\* ---- C4
\* C4: no side effect occurs before both the input and the output path have
\* passed the extension check; a run rejected for its output extension ends
\* without having performed any side effect.
ExtensionChecksPending ==
    \/ pc \in {"ParseArgs", "ValidateInput", "ValidateOutputDir", "ValidateOutputExt"}
    \/ failedStep \in {"ParseArgs", "ValidateInput", "ValidateOutputDir", "ValidateOutputExt"}

C4_NoSideEffectBeforeExtensionChecks ==
    ExtensionChecksPending => effects = <<>>

\* ---- C5
\* C5: when a step fails, no later step runs (only the workspace removal
\* follows), and the run ends with a non-zero status.
C5_FailureShortCircuits ==
    failedStep # "none" =>
        /\ IF failedStep = "ParseArgs"
           THEN trace = <<>>
           ELSE /\ CoreTrace # <<>>
                /\ CoreTrace[Len(CoreTrace)] = failedStep
                /\ \A i \in 1..(Len(CoreTrace) - 1) : CoreTrace[i] # failedStep
        /\ pc \in {"Cleanup", "terminated"}
        /\ failedStep \in {"ParseArgs", "ValidateInput", "ValidateOutputDir",
                           "ValidateOutputExt", "Preflight"}
              => (~Did("download") /\ cache = {})
        /\ failedStep \in {"ParseArgs", "ValidateInput", "ValidateOutputDir",
                           "ValidateOutputExt", "Preflight", "FetchArtifacts",
                           "BuildWorkspace", "ConvertIn"}
              => (engineRuns = <<>> /\ ~Did("subprocess"))
        /\ failedStep # "ConvertOut" => ~InTrace("ConvertOut")
        /\ Terminated => (exit # <<>> /\ exit # <<0>>)

\* the preflight failed: nothing was fetched and the status is not zero
C5_Witness ==
    /\ Terminated
    /\ failedStep = "Preflight"
    /\ cache = {}
    /\ exit = <<1>>

\* ---- C6
\* C6: every failure other than a non-zero exit of the engine process ends the
\* tool with status exactly 1, and status 0 means the run did not fail.
C6_OtherFailuresExitOne ==
    Terminated =>
        /\ (failedStep # "none" /\ ~EngineFailed) => exit = <<1>>
        /\ exit = <<0>> => failedStep = "none"

\* ---- C7
\* C7: engine exit code 0 with the prediction file absent: a missing-output
\* error is reported, the status is 1, the output conversion is not attempted.
EngineOkWithoutPrediction ==
    engine.kind = "exit" /\ engine.rc = 0 /\ ~engine.wrotePred

C7_MissingPrediction ==
    EngineOkWithoutPrediction =>
        /\ pc # "ConvertOut"
        /\ ~InTrace("ConvertOut")
        /\ ~Did("write_output")
        /\ Terminated => /\ exit = <<1>>
                         /\ failedStep = "LocateOutput"
                         /\ stderr = << <<"prediction_missing">> >>

C7_Witness ==
    /\ Terminated
    /\ EngineOkWithoutPrediction
    /\ exit = <<1>>

\* ---- C8
CountWord(words, w) == Cardinality({i \in 1..Len(words) : words[i] = w})

\* the number written in decimal by a word of digits (-1 when it is not one)
RECURSIVE DecimalValue(_)
DecimalValue(word) ==
    LET d == {k \in 0..9 : Digits[k + 1] = word[Len(word)]}
    IN IF word = <<>> \/ d = {} THEN 0 - 1
       ELSE IF Len(word) = 1 THEN CHOOSE k \in d : TRUE
       ELSE LET hi == DecimalValue(SubSeq(word, 1, Len(word) - 1))
            IN IF hi < 0 THEN 0 - 1 ELSE 10 * hi + (CHOOSE k \in d : TRUE)

\* C8: the engine command holds exactly one device selection: --gpu <list>
\* and no --cpu when the gpu list is not empty, --cpu <count> and no --gpu
\* when it is empty.
C8_DeviceSelectionExclusive ==
    cmd # <<>> =>
        IF args.gpu # <<>>
        THEN /\ CountWord(cmd, W_gpu) = 1
             /\ CountWord(cmd, W_cpu) = 0
             /\ \E i \in 1..(Len(cmd) - 1) : cmd[i] = W_gpu /\ cmd[i + 1] = args.gpu
        ELSE /\ CountWord(cmd, W_cpu) = 1
             /\ CountWord(cmd, W_gpu) = 0
             /\ \E i \in 1..(Len(cmd) - 1) :
                    cmd[i] = W_cpu /\ DecimalValue(cmd[i + 1]) = args.cpu

\* a command built for a gpu list, and one built for a cpu count
C8_Witness ==
    /\ cmd # <<>>
    /\ args.gpu = <<"0", ",", "1">>
    /\ CountWord(cmd, W_gpu) = 1

\* ---- C9
\* the pieces of a word between occurrences of the separator character
RECURSIVE split(_, _)
split(word, sepChar) ==
    LET hits == {i \in 1..Len(word) : word[i] = sepChar}
        first == CHOOSE i \in hits : \A j \in hits : i <= j
    IN IF hits = {} THEN <<word>>
       ELSE <<SubSeq(word, 1, first - 1)>>
                \o split(SubSeq(word, first + 1, Len(word)), sepChar)

\* C9: the paths in the --MODEL argument are as many as the identifiers
\* get_models_name returns, in the same order: the i-th path is the fetch
\* result of the i-th identifier.
C9_ModelOrderPreserved ==
    cmd # <<>> =>
        LET ids == get_models_name(args.task, args.fast)[1]
            k == CHOOSE i \in 1..Len(cmd) : cmd[i] = W_MODEL
            paths == split(cmd[k + 1], ":")
        IN /\ CountWord(cmd, W_MODEL) = 1
           /\ Len(paths) = Len(ids)
           /\ \A i \in 1..Len(ids) : paths[i] = hf_hub_download(ids[i])
           /\ Len(models_path) = Len(ids)
           /\ \A i \in 1..Len(ids) : models_path[i] = paths[i]

\* a command built for the five-model ensemble
C9_Witness ==
    /\ cmd # <<>>
    /\ Len(models_name) = 5
    /\ Len(split(cmd[5], ":")) = 5

\* ---- C10
StepIndex(step) == CHOOSE i \in 1..Len(StepOrder) : StepOrder[i] = step

\* C10: the steps that execute do so in the fixed order, each at most once,
\* and the engine is launched only after every model, the model definition
\* and the configuration have been fetched and the input volume is staged.
C10_FixedStepOrder ==
    /\ \A i \in 1..Len(trace) : \E k \in 1..Len(StepOrder) : StepOrder[k] = trace[i]
    /\ \A i, j \in 1..Len(trace) :
            i < j => StepIndex(trace[i]) < StepIndex(trace[j])
    /\ Len(engineRuns) <= 1
    /\ \A r \in 1..Len(engineRuns) :
        LET ids == get_models_name(args.task, args.fast)
        IN /\ \A i \in 1..Len(ids[1]) : ids[1][i] \in engineRuns[r].cache
           /\ ModelPy \in engineRuns[r].cache
           /\ ids[2] \in engineRuns[r].cache
           /\ VolOut \in engineRuns[r].cwd
           /\ WsModelPy \in engineRuns[r].cwd

\* a complete successful run: all thirteen steps, one engine launch
C10_Witness ==
    /\ Terminated
    /\ trace = StepOrder
    /\ Len(engineRuns) = 1

\* ---- C11
\* C11: for task total with fast = false the resolver returns M291.pt ..
\* M295.pt in that order and Prediction_CT.yml, and the --MODEL argument is
\* the five local paths joined by ':'.
C11_TotalEnsembleCommand ==
    (argv.task = "total" /\ ~argv.fast) =>
        /\ InTrace("ResolveTask") =>
              /\ models_name = <<M291, M292, M293, M294, M295>>
              /\ inference_file = Prediction_CT
        /\ cmd # <<>> =>
              /\ cmd[4] = W_MODEL
              /\ cmd[5] = HubCache \o M291 \o <<":">> \o HubCache \o M292 \o <<":">>
                            \o HubCache \o M293 \o <<":">> \o HubCache \o M294
                            \o <<":">> \o HubCache \o M295
              /\ cmd[6] = W_config
              /\ cmd[7] = HubCache \o Prediction_CT

\* the engine was launched for task total at standard resolution
C11_Witness ==
    /\ argv.task = "total"
    /\ ~argv.fast
    /\ Len(engineRuns) = 1
    /\ Len(models_path) = 5

\* ---- C12
TaskModes == {<<"total", FALSE>>, <<"total", TRUE>>, <<"total_mr", FALSE>>, <<"total_mr", TRUE>>}

\* C12: with fast the resolver returns exactly one model identifier, without
\* it more than one, and the configuration identifiers of the four
\* (task, fast) combinations are pairwise distinct.
C12_FastSingleEnsembleMany ==
    InTrace("ResolveTask") =>
        /\ argv.fast => Len(models_name) = 1
        /\ ~argv.fast => Len(models_name) > 1
        /\ \A tm \in TaskModes :
              tm # <<argv.task, argv.fast>>
                  => get_models_name(tm[1], tm[2])[2] # inference_file
        /\ (argv.task = "total_mr" /\ argv.fast) => inference_file = Prediction_MR_Fast

\* task total_mr resolved with the fast flag
C12_Witness ==
    /\ InTrace("ResolveTask")
    /\ argv.task = "total_mr"
    /\ argv.fast
    /\ Len(models_name) = 1

\* ---- C13
ListedSuffixes == {
    <<"m", "h", "a">>, <<"m", "h", "d">>, <<"n", "i", "i">>,
    <<"n", "i", "i", ".", "g", "z">>, <<"n", "r", "r", "d">>,
    <<"n", "r", "r", "d", ".", "g", "z">>, <<"g", "i", "p", "l">>,
    <<"g", "i", "p", "l", ".", "g", "z">> }

\* the last n characters of the path spell one of the listed suffixes
EndsWithListedSuffix(path) ==
    \E n \in 3..7 :
        /\ Len(path) >= n
        /\ [i \in 1..n |-> path[Len(path) - n + i]] \in ListedSuffixes

\* C13: the extension check accepts a path exactly when it ends with one of
\* mha, mhd, nii, nii.gz, nrrd, nrrd.gz, gipl, gipl.gz; the same check is
\* applied to the input path and, independently, to the output path.
C13_ExtensionCheckExact ==
    /\ (InTrace("ValidateInput") /\ inputExists) =>
          /\ (failedStep = "ValidateInput") <=> ~EndsWithListedSuffix(args.input)
          /\ failedStep = "ValidateInput" => stderr = << <<"input_extension">> >>
    /\ InTrace("ValidateOutputExt") =>
          /\ (failedStep = "ValidateOutputExt") <=> ~EndsWithListedSuffix(args.output)
          /\ failedStep = "ValidateOutputExt" => stderr = << <<"output_extension">> >>

\* an input with a compound suffix was accepted and the output then rejected
C13_Witness ==
    /\ argv.input = <<"s", ".", "n", "r", "r", "d", ".", "g", "z">>
    /\ argv.output = <<"s", ".", "m", "h", "a", ".", "g", "z">>
    /\ failedStep = "ValidateOutputExt"
    /\ Terminated

\* ---- C14
NotFoundReported ==
    \E i \in 1..Len(stderr) :
        stderr[i] \in {<<"konfai_not_in_path">>, <<"konfai_not_found">>}
EngineFailureReported == \E i \in 1..Len(stderr) : stderr[i][1] = "engine_exit"

\* the executable was missing when the preflight looked for it, or at launch
ExecutableMissing ==
    \/ InTrace("Preflight") /\ ~konfaiOnPath
    \/ engine.kind = "notfound"
EngineReturnedNonZero == engine.kind = "exit" /\ engine.rc # 0

\* C14: 'executable not found' (at preflight or at launch) is reported as an
\* environment error with status 1, 'engine ran and returned non-zero' as an
\* engine failure naming the code, and neither report is made for the other
\* cause.
C14_DistinctEngineFailures ==
    Terminated =>
        /\ NotFoundReported <=> ExecutableMissing
        /\ EngineFailureReported <=> EngineReturnedNonZero
        /\ ExecutableMissing => (exit = <<1>> /\ ~EngineFailureReported /\ Len(stderr) = 1)
        /\ EngineReturnedNonZero =>
              (stderr = << <<"engine_exit", engine.rc>> >> /\ ~NotFoundReported)

\* the executable disappeared between the preflight and the launch
C14_Witness ==
    /\ Terminated
    /\ engine.kind = "notfound"
    /\ stderr = << <<"konfai_not_found">> >>
    /\ exit = <<1>>

\* ---- C16
TaskAccepted ==
    \E i \in 1..Len(_get_available_models) : _get_available_models[i] = argv.task

\* C16: for every task the command line accepts and both values of fast,
\* get_models_name returns a non-empty model list and a non-empty
\* configuration name, so the engine never gets an empty --MODEL or --config
\* word; any other task is rejected by the argument parser and never reaches
\* get_models_name.
C16_ModelSetNeverEmpty ==
    /\ \A i \in 1..Len(_get_available_models) : \A fast \in BOOLEAN :
          LET r == get_models_name(_get_available_models[i], fast)
          IN /\ r[1] # <<>>
             /\ \A k \in 1..Len(r[1]) : r[1][k] # <<>>
             /\ r[2] # <<>>
    /\ InTrace("ResolveTask") =>
          /\ TaskAccepted
          /\ models_name # <<>>
          /\ inference_file # <<>>
    /\ \A r \in 1..Len(engineRuns) :
          LET c == engineRuns[r].cmd
          IN \E i, j \in 1..(Len(c) - 1) :
                /\ c[i] = W_MODEL /\ c[i + 1] # <<>>
                /\ c[j] = W_config /\ c[j + 1] # <<>>
    /\ ~TaskAccepted =>
          /\ pc \in {"ParseArgs", "terminated"}
          /\ trace = <<>>
          /\ models_name = <<>>
          /\ (Terminated /\ ~argv.version) => (failedStep = "ParseArgs" /\ exit = <<2>>)

\* a task outside the accepted set was turned away by the argument parser
C16_Witness ==
    /\ Terminated
    /\ argv.task = "body"
    /\ argv.input # <<>>
    /\ failedStep = "ParseArgs"
    /\ models_name = <<>>

\* ---- C17
\* one engine launch that exited 0 and left the prediction file, followed by
\* a completed output conversion
FullRunCompleted ==
    /\ Len(engineRuns) = 1
    /\ engineRuns[1].rc = 0
    /\ engine.kind = "exit" /\ engine.rc = 0 /\ engine.wrotePred
    /\ InTrace("LocateOutput")
    /\ InTrace("ConvertOut")
    /\ outputFile = "seg"
    /\ failedStep = "none"
    /\ stderr = <<>>

\* C17 as stated: status 0 only after one engine launch that exited 0, with
\* the prediction file present and the output conversion completed.
C17_ZeroOnlyAfterFullRun ==
    (Terminated /\ exit = <<0>>) => FullRunCompleted

\* C17 as amended: the same, for every run that is not a request for the
\* version (or help) text, which argparse answers with status 0 before any
\* driver step.
C17_ZeroOnlyAfterFullRunUnlessInfo ==
    (Terminated /\ exit = <<0>> /\ ~argv.version) => FullRunCompleted

\* a successful segmentation run
C17_Witness ==
    /\ Terminated
    /\ exit = <<0>>
    /\ ~argv.version
    /\ Len(engineRuns) = 1
    /\ outputFile = "seg"

\* ---- C15
Live(j) == jpc[j] \in {"Stage", "Invoke", "Harvest", "Cleanup"}

\* C15: concurrent invocations own distinct workspace directories, no
\* invocation reads, writes or removes a workspace another invocation
\* created, and a workspace directory is never taken over by a later job.
C15_WorkspaceExclusive ==
    /\ \A j, k \in Jobs : (j # k /\ Live(j) /\ Live(k)) => jdir[j] # jdir[k]
    /\ \A a \in touched : <<a.inst, a.job>> \in created
    /\ \A a \in touched : \A c \in created : c[1] = a.inst => c[2] = a.job
    /\ \A c1, c2 \in created : c1[1] = c2[1] => c1[2] = c2[2]

\* two invocations run their engines at once in different workspaces, after
\* an earlier job has finished and its directory name has been issued again
C15_Witness ==
    /\ \E j, k \in Jobs :
          /\ j # k
          /\ jpc[j] = "Invoke" /\ jpc[k] = "Invoke"
          /\ jdir[j] # jdir[k]
    /\ \E j \in Jobs : jpc[j] = "done" /\ jdir[j] # 0
    /\ nextInst = NumJobs + 1

====
